---------------------------- MODULE Spec2Model ----------------------------
(***************************************************************************)
(* The `ask` command-line chat client (src/src/main.rs).                   *)
(*                                                                         *)
(* One invocation of main: read OPENAI_API_KEY, create and read the log    *)
(* file ~/.ask/ask_log.json, select the history that fits MAX_TOKENS,      *)
(* append the prompt, POST the request, handle the response, append two    *)
(* entries and overwrite the log file.  Two invocations may run against    *)
(* the same log file at once.                                              *)
(*                                                                         *)
(* Token counts are Rust i64 values.  TLC's integers are 32 bits wide, so  *)
(* a 64-bit value is held as three limbs <<h, m, l>> that stand for        *)
(* h * 2^42 + m * 2^21 + l, with m and l in 0 .. 2^21 - 1.  The value is   *)
(* an i64 when -2^21 <= h < 2^21; a mathematical sum of a few i64 values   *)
(* may carry an h outside that range.                                      *)
(*                                                                         *)
(* An addition that overflows panics in a build with overflow checks and   *)
(* wraps in one without (the release profile); overflow_checks says which  *)
(* build runs.  The calls on the file system are taken to succeed.  The    *)
(* variables marked `history` record what happened and steer nothing.      *)
(***************************************************************************)
EXTENDS Integers, Sequences, FiniteSets, TLC

(***************************************************************************)
(* Bounds of the model.                                                    *)
(***************************************************************************)
\* invocations started in one behaviour
MaxRuns == 2
\* turns (a user and an assistant entry) of a log file that earlier
\* invocations have left (SpecLog)
MaxTurns == 3

Procs == {1, 2}

(***************************************************************************)
(* 64-bit integers.                                                        *)
(***************************************************************************)
Limb == 2^21

BigOf(n) == IF n >= 0 THEN <<0, 0, n>> ELSE <<-1, Limb - 1, Limb + n>>

BigAdd(a, b) ==
    LET l == a[3] + b[3]
        m == a[2] + b[2] + (l \div Limb)
        h == a[1] + b[1] + (m \div Limb)
    IN  <<h, m % Limb, l % Limb>>

BigLess(a, b) ==
    \/ a[1] < b[1]
    \/ a[1] = b[1] /\ a[2] < b[2]
    \/ a[1] = b[1] /\ a[2] = b[2] /\ a[3] < b[3]

BigLeq(a, b) == a = b \/ BigLess(a, b)

I64Min == <<-Limb, 0, 0>>
I64Max == <<Limb - 1, Limb - 1, Limb - 1>>

InI64(a) == BigLeq(I64Min, a) /\ BigLeq(a, I64Max)

\* two's-complement wrap of a mathematical value to 64 bits
WrapI64(a) == <<((a[1] + Limb) % (2 * Limb)) - Limb, a[2], a[3]>>

MAX_TOKENS == 2000

(***************************************************************************)
(* Data: Log, Message, and the text of the log file.                       *)
(***************************************************************************)
create_message(role, content) == [role |-> role, content |-> content]

create_log(now, role, content, tokens) ==
    [timestamp |-> now, role |-> role, content |-> content, tokens |-> tokens]

\* the text of a file: no bytes, bytes serde_json rejects, or a JSON array
EmptyText == [kind |-> "empty", log |-> <<>>]
Garbage == [kind |-> "garbage", log |-> <<>>]

\* serde_json::to_string(&chatlog)
to_string(chatlog) == [kind |-> "json", log |-> chatlog]

\* serde_json::from_str::<Vec<Log>>(text)
from_str(text) ==
    IF text.kind = "json" THEN [ok |-> TRUE, log |-> text.log]
    ELSE [ok |-> FALSE, log |-> <<>>]

(***************************************************************************)
(* The history selection of main, lines 111-130.                           *)
(***************************************************************************)
\* total_tokens + log.tokens: the mathematical sum, and whether it fits
Overflows(total, tokens) == ~InI64(BigAdd(total, tokens))

\* the i64 the addition yields in a build without overflow checks
AddI64(total, tokens) == WrapI64(BigAdd(total, tokens))

\* (variant: `>=` for `>`)
FitsGE(total, tokens) == BigLess(AddI64(total, tokens), BigOf(MAX_TOKENS))

\* the negation of `total_tokens + log.tokens > MAX_TOKENS`
Fits(total, tokens) == BigLeq(AddI64(total, tokens), BigOf(MAX_TOKENS))

\* `continue`: the scan goes on with the next older entry
AfterSkip(i) == i - 1

NoScan == [total |-> BigOf(0), messages |-> <<>>, included |-> {}, panic |-> FALSE]

\* for log in chatlog.iter().rev() { ... }, from entry i down to entry 1;
\* `included` records the indices whose messages were pushed
RECURSIVE Scan(_, _, _, _)
Scan(chatlog, i, acc, checks) ==
    IF i = 0 THEN acc
    ELSE IF checks /\ Overflows(acc.total, chatlog[i].tokens)
         THEN [acc EXCEPT !.panic = TRUE]
    ELSE IF ~Fits(acc.total, chatlog[i].tokens)
         THEN Scan(chatlog, AfterSkip(i), acc, checks)
    ELSE Scan(chatlog, i - 1,
              [total |-> AddI64(acc.total, chatlog[i].tokens),
               messages |-> Append(acc.messages,
                               create_message(chatlog[i].role, chatlog[i].content)),
               included |-> acc.included \cup {i},
               panic |-> FALSE],
              checks)

Reverse(s) == [k \in 1..Len(s) |-> s[Len(s) + 1 - k]]

\* (variant: the reversal left out)
ChronologicalKeep(messages) == messages

\* messages = messages.into_iter().rev().collect()
Chronological(messages) == Reverse(messages)

\* messages.push(create_message("user", prompt))
WithPrompt(messages, prompt) == Append(messages, create_message("user", prompt))

(***************************************************************************)
(* JSON values of the provider's response (serde_json::Value).             *)
(***************************************************************************)
JNull == [kind |-> "null", int |-> BigOf(0), str |-> ""]
JInt(b) == [kind |-> "int", int |-> b, str |-> ""]
JStr(s) == [kind |-> "str", int |-> BigOf(0), str |-> s]

None == [some |-> FALSE, int |-> BigOf(0), str |-> ""]

\* (variant: 0 for a value that is no i64, as with unwrap_or_default)
as_i64_or_default(v) ==
    [some |-> TRUE, int |-> IF v.kind = "int" /\ InI64(v.int) THEN v.int ELSE BigOf(0),
     str |-> ""]

\* Value::as_i64: an integer that fits an i64, or None
as_i64(v) ==
    IF v.kind = "int" /\ InI64(v.int) THEN [some |-> TRUE, int |-> v.int, str |-> ""]
    ELSE None

\* Value::as_str
as_str(v) ==
    IF v.kind = "str" THEN [some |-> TRUE, int |-> BigOf(0), str |-> v.str]
    ELSE None

\* response["error"] is "none" (absent), "object" or some other JSON value;
\* message is response["error"]["message"]
Response(error, message, pt, ct, content) ==
    [error |-> error, message |-> message, prompt_tokens |-> pt,
     completion_tokens |-> ct, content |-> content]

NoResponse == Response("none", JNull, JNull, JNull, JNull)

(***************************************************************************)
(* Inputs.                                                                 *)
(***************************************************************************)
Prompts == {"hello"}
Answers == {"hi there"}
ErrorMessages == {"rate limited"}

\* usage.prompt_tokens and usage.completion_tokens of a complete response:
\* small, negative, equal to MAX_TOKENS, and the ends of the i64 range
Usages ==
    {<<BigOf(1), BigOf(1)>>, <<BigOf(-1), BigOf(1)>>,
     <<BigOf(1), BigOf(MAX_TOKENS)>>, <<BigOf(MAX_TOKENS), BigOf(1)>>,
     <<BigOf(1), I64Max>>, <<I64Max, BigOf(1)>>, <<I64Min, BigOf(-1)>>}

\* 2^63: a JSON integer that is no i64
TooBig == JInt(BigAdd(I64Max, BigOf(1)))

Responses ==
    \* {"error": {"message": ..}} and {"error": {}}
    {Response("object", m, JNull, JNull, JNull) :
        m \in {JNull} \cup {JStr(e) : e \in ErrorMessages}}
    \* the expected shape
    \cup {Response("none", JNull, JInt(u[1]), JInt(u[2]), JStr(a)) :
            u \in Usages, a \in Answers}
    \* an "error" that is no object, beside the expected fields
    \cup {Response("string", JNull, JInt(BigOf(1)), JInt(BigOf(1)), JStr(a)) :
            a \in Answers}
    \* one expected field absent or of another type
    \cup {Response("none", JNull, pt, JInt(BigOf(1)), JStr(a)) :
            pt \in {JNull, TooBig}, a \in Answers}
    \cup {Response("none", JNull, JInt(BigOf(1)), ct, JStr(a)) :
            ct \in {JNull, TooBig}, a \in Answers}
    \cup {Response("none", JNull, JInt(BigOf(1)), JInt(BigOf(1)), JNull)}

(***************************************************************************)
(* State.                                                                  *)
(***************************************************************************)
VARIABLES
    fs,              \* ~/.ask: [dir, exists, text] of ask_log.json
    overflow_checks, \* whether the build panics on integer overflow
    runs,            \* invocations started so far; also the reading of Utc::now()
    pc,              \* where each invocation is in main
    key,             \* whether OPENAI_API_KEY is set for the invocation
    prompt,          \* args.prompt.join(" ")
    chatlog_text,    \* what read_to_string returned
    chatlog,         \* Vec<Log>
    messages,        \* Vec<Message> of the request
    stdout,          \* lines printed by println!
    exit,            \* Running, or the exit code 0, 1 (Err) or 101 (panic)
    included,        \* history: indices of the log entries pushed to messages
    response,        \* history: the JSON value received
    requested,       \* history: whether the POST was sent
    fsLog,           \* history: file-system operations the invocation performed
    startFs,         \* history: fs when the invocation started
    shared,          \* history: whether another invocation has run since this one started
    lastWriter       \* history: the invocation whose fs::write came last (0: none)

vars == <<fs, overflow_checks, runs, pc, key, prompt, chatlog_text, chatlog,
          messages, stdout, exit, included, response, requested, fsLog, startFs,
          shared, lastWriter>>

\* main has not returned
Running == -1

Active(q) == pc[q] \notin {"idle", "exited"}

NoFile == [dir |-> FALSE, exists |-> FALSE, text |-> EmptyText]

InitLocals ==
    /\ overflow_checks \in BOOLEAN
    /\ pc = [p \in Procs |-> "idle"]
    /\ key = [p \in Procs |-> FALSE]
    /\ prompt = [p \in Procs |-> ""]
    /\ chatlog_text = [p \in Procs |-> EmptyText]
    /\ chatlog = [p \in Procs |-> <<>>]
    /\ messages = [p \in Procs |-> <<>>]
    /\ stdout = [p \in Procs |-> <<>>]
    /\ exit = [p \in Procs |-> Running]
    /\ included = [p \in Procs |-> {}]
    /\ response = [p \in Procs |-> NoResponse]
    /\ requested = [p \in Procs |-> FALSE]
    /\ fsLog = [p \in Procs |-> {}]
    /\ startFs = [p \in Procs |-> NoFile]
    /\ shared = [p \in Procs |-> FALSE]
    /\ lastWriter = 0

\* no log yet: ~/.ask absent, or present with no file, an empty file or a
\* file that is not a JSON array of Log
Init ==
    /\ fs \in {NoFile,
               [dir |-> TRUE, exists |-> FALSE, text |-> EmptyText],
               [dir |-> TRUE, exists |-> TRUE, text |-> EmptyText],
               [dir |-> TRUE, exists |-> TRUE, text |-> Garbage]}
    /\ runs = 0
    /\ InitLocals

(***************************************************************************)
(* main, lines 60-95: the environment and the arguments.                   *)
(***************************************************************************)
\* (variant: a missing variable tolerated)
ExpectKeyLenient(k) == TRUE

\* env::var(key).expect(..): main goes on only when the variable is set
ExpectKey(k) == k

Start(p) ==
    /\ pc[p] \in {"idle", "exited"}
    /\ runs < MaxRuns
    /\ \E k \in BOOLEAN, words \in Prompts :
        /\ key' = [key EXCEPT ![p] = k]
        /\ prompt' = [prompt EXCEPT ![p] = words]
        /\ IF ExpectKey(k)
           THEN /\ pc' = [pc EXCEPT ![p] = "started"]
                /\ exit' = [exit EXCEPT ![p] = Running]
           ELSE /\ pc' = [pc EXCEPT ![p] = "exited"]
                /\ exit' = [exit EXCEPT ![p] = 101]
    /\ runs' = runs + 1
    /\ chatlog_text' = [chatlog_text EXCEPT ![p] = EmptyText]
    /\ chatlog' = [chatlog EXCEPT ![p] = <<>>]
    /\ messages' = [messages EXCEPT ![p] = <<>>]
    /\ stdout' = [stdout EXCEPT ![p] = <<>>]
    /\ included' = [included EXCEPT ![p] = {}]
    /\ response' = [response EXCEPT ![p] = NoResponse]
    /\ requested' = [requested EXCEPT ![p] = FALSE]
    /\ fsLog' = [fsLog EXCEPT ![p] = {}]
    /\ startFs' = [startFs EXCEPT ![p] = fs]
    /\ shared' = [q \in Procs |->
                     IF q = p THEN \E o \in Procs \ {p} : Active(o) ELSE TRUE]
    /\ UNCHANGED <<fs, overflow_checks, lastWriter>>

(***************************************************************************)
(* main, lines 98-105: create ~/.ask and open ask_log.json, creating it.   *)
(***************************************************************************)
OpenLog(p) ==
    /\ pc[p] = "started"
    /\ fs' = [dir |-> TRUE, exists |-> TRUE,
              text |-> IF fs.exists THEN fs.text ELSE EmptyText]
    /\ fsLog' = [fsLog EXCEPT ![p] =
                    @ \cup {"open"}
                      \cup (IF fs.dir THEN {} ELSE {"create_dir"})
                      \cup (IF fs.exists THEN {} ELSE {"create_file"})]
    /\ pc' = [pc EXCEPT ![p] = "opened"]
    /\ UNCHANGED <<overflow_checks, runs, key, prompt, chatlog_text, chatlog,
                   messages, stdout, exit, included, response, requested,
                   startFs, shared, lastWriter>>

(***************************************************************************)
(* main, lines 107-130: read the file, parse it, select the history.       *)
(***************************************************************************)
LoadLog(p) ==
    /\ pc[p] = "opened"
    /\ chatlog_text' = [chatlog_text EXCEPT ![p] = fs.text]
    /\ fsLog' = [fsLog EXCEPT ![p] = @ \cup {"read"}]
    /\ LET text == fs.text
           parsed == from_str(text)
           scan == IF text = EmptyText THEN NoScan
                   ELSE Scan(parsed.log, Len(parsed.log), NoScan, overflow_checks)
       IN  IF text # EmptyText /\ ~parsed.ok
           THEN \* serde_json::from_str(..)? returns the Err from main
                /\ pc' = [pc EXCEPT ![p] = "exited"]
                /\ exit' = [exit EXCEPT ![p] = 1]
                /\ UNCHANGED <<chatlog, messages, included>>
           ELSE IF scan.panic
           THEN \* attempt to add with overflow
                /\ pc' = [pc EXCEPT ![p] = "exited"]
                /\ exit' = [exit EXCEPT ![p] = 101]
                /\ chatlog' = [chatlog EXCEPT ![p] = parsed.log]
                /\ UNCHANGED <<messages, included>>
           ELSE /\ pc' = [pc EXCEPT ![p] = "ready"]
                /\ chatlog' = [chatlog EXCEPT ![p] = parsed.log]
                /\ messages' = [messages EXCEPT ![p] =
                                   WithPrompt(Chronological(scan.messages), prompt[p])]
                /\ included' = [included EXCEPT ![p] = scan.included]
                /\ UNCHANGED exit
    /\ UNCHANGED <<fs, overflow_checks, runs, key, prompt, stdout, response,
                   requested, startFs, shared, lastWriter>>

(***************************************************************************)
(* main, lines 134-163: build and send the request.                        *)
(***************************************************************************)
Send(p) ==
    /\ pc[p] = "ready"
    /\ requested' = [requested EXCEPT ![p] = TRUE]
    /\ pc' = [pc EXCEPT ![p] = "sent"]
    /\ UNCHANGED <<fs, overflow_checks, runs, key, prompt, chatlog_text, chatlog,
                   messages, stdout, exit, included, response, fsLog, startFs,
                   shared, lastWriter>>

\* send().unwrap() / json().unwrap(): connection failure, timeout, no JSON
TransportFailure(p) ==
    /\ pc[p] = "sent"
    /\ pc' = [pc EXCEPT ![p] = "exited"]
    /\ exit' = [exit EXCEPT ![p] = 101]
    /\ UNCHANGED <<fs, overflow_checks, runs, key, prompt, chatlog_text, chatlog,
                   messages, stdout, included, response, requested, fsLog,
                   startFs, shared, lastWriter>>

(***************************************************************************)
(* main, lines 171-201: the response.                                      *)
(***************************************************************************)
ErrorLine(msg) == [kind |-> "error", text |-> msg]
AnswerLine(answer) == [kind |-> "answer", text |-> answer]

\* (variant: the two pushes in the other order)
PushedSwapped(log, now, words, pt, answer, ct) ==
    log \o <<create_log(now, "assistant", answer, ct), create_log(now, "user", words, pt)>>

\* chatlog.push(user); chatlog.push(assistant)
Pushed(log, now, words, pt, answer, ct) ==
    log \o <<create_log(now, "user", words, pt), create_log(now, "assistant", answer, ct)>>

\* (variant: the two new entries appended to what the file holds)
WriteAppending(f, log) ==
    [f EXCEPT !.exists = TRUE,
              !.text = to_string(from_str(f.text).log \o SubSeq(log, Len(log) - 1, Len(log)))]

\* fs::write(&chatlog_path, chatlog_text): the whole file is replaced
Write(f, log) == [f EXCEPT !.exists = TRUE, !.text = to_string(log)]

\* (variant: the error branch falls through to the write)
AfterProviderErrorWrite(f, log) == Write(f, log)

\* the file system after the error branch, which returns without writing
AfterProviderError(f, log) == f

Receive(p) ==
    /\ pc[p] = "sent"
    /\ \E r \in Responses :
        /\ response' = [response EXCEPT ![p] = r]
        /\ pc' = [pc EXCEPT ![p] = "exited"]
        /\ IF r.error = "object"
           THEN IF as_str(r.message).some
                THEN /\ stdout' = [stdout EXCEPT ![p] =
                                      Append(@, ErrorLine(as_str(r.message).str))]
                     /\ exit' = [exit EXCEPT ![p] = 0]
                     /\ fs' = AfterProviderError(fs, chatlog[p])
                     /\ UNCHANGED <<chatlog, fsLog, lastWriter>>
                ELSE /\ exit' = [exit EXCEPT ![p] = 101]
                     /\ UNCHANGED <<fs, chatlog, stdout, fsLog, lastWriter>>
           ELSE LET pt == as_i64(r.prompt_tokens)
                    ct == as_i64(r.completion_tokens)
                    answer == as_str(r.content)
                IN  IF ~pt.some \/ ~ct.some \/ ~answer.some
                    THEN /\ exit' = [exit EXCEPT ![p] = 101]
                         /\ UNCHANGED <<fs, chatlog, stdout, fsLog, lastWriter>>
                    ELSE /\ stdout' = [stdout EXCEPT ![p] =
                                          Append(@, AnswerLine(answer.str))]
                         /\ chatlog' = [chatlog EXCEPT ![p] =
                                           Pushed(@, runs, prompt[p], pt.int,
                                                  answer.str, ct.int)]
                         /\ fs' = Write(fs, chatlog'[p])
                         /\ fsLog' = [fsLog EXCEPT ![p] = @ \cup {"write"}]
                         /\ lastWriter' = p
                         /\ exit' = [exit EXCEPT ![p] = 0]
    /\ UNCHANGED <<overflow_checks, runs, key, prompt, chatlog_text, messages,
                   included, requested, startFs, shared>>

Next ==
    \E p \in Procs :
        \/ Start(p)
        \/ OpenLog(p)
        \/ LoadLog(p)
        \/ Send(p)
        \/ TransportFailure(p)
        \/ Receive(p)

Spec == Init /\ [][Next]_vars

(***************************************************************************)
(* The same program started on a log that earlier invocations have left:   *)
(* no file, an empty file, or the file after up to MaxTurns successful     *)
(* invocations, each having pushed and written its two entries with the    *)
(* token counts of one of Usages.  One more invocation runs.               *)
(***************************************************************************)
RECURSIVE Turns(_)
Turns(n) ==
    IF n = 0 THEN {<<>>}
    ELSE {Pushed(h, n, words, u[1], answer, u[2]) :
             h \in Turns(n - 1), words \in Prompts, answer \in Answers, u \in Usages}

Histories == UNION {Turns(n) : n \in 1..MaxTurns}

InitLog ==
    /\ fs \in {NoFile, [dir |-> TRUE, exists |-> TRUE, text |-> EmptyText]}
              \cup {Write([NoFile EXCEPT !.dir = TRUE], h) : h \in Histories}
    /\ runs = MaxRuns - 1
    /\ InitLocals

SpecLog == InitLog /\ [][Next]_vars

(***************************************************************************)
(* Vocabulary of the properties.                                           *)
(***************************************************************************)
Budget == BigOf(MAX_TOKENS)

\* the log an invocation loaded
Loaded(p) == IF chatlog_text[p].kind = "json" THEN chatlog_text[p].log ELSE <<>>

\* the log a file-system state persists (no file, or an empty one: no entry)
Persisted(f) == IF f.exists /\ f.text.kind = "json" THEN f.text.log ELSE <<>>

\* the mathematical sum of the tokens of the entries of log at the indices S
RECURSIVE SumTokens(_, _)
SumTokens(log, S) ==
    IF S = {} THEN BigOf(0)
    ELSE LET i == CHOOSE x \in S : TRUE
         IN  BigAdd(log[i].tokens, SumTokens(log, S \ {i}))

\* the messages of the entries of log at the indices S, oldest first
RECURSIVE MessagesAt(_, _, _)
MessagesAt(log, S, i) ==
    IF i > Len(log) THEN <<>>
    ELSE (IF i \in S THEN <<create_message(log[i].role, log[i].content)>> ELSE <<>>)
         \o MessagesAt(log, S, i + 1)

Exited(p) == pc[p] = "exited"

\* the invocation ended with an answer: exit code 0 and no error object
Succeeded(p) == Exited(p) /\ exit[p] = 0 /\ requested[p] /\ response[p].error # "object"

\* a response that is no provider error and lacks one of the three fields
IsI64(v) == v.kind = "int" /\ InI64(v.int)
LacksField(r) ==
    /\ r.error # "object"
    /\ ~IsI64(r.prompt_tokens) \/ ~IsI64(r.completion_tokens) \/ r.content.kind # "str"

\* the two entries a successful invocation appends, whatever their timestamp
NewEntries(p, ts) ==
    <<create_log(ts, "user", prompt[p], response[p].prompt_tokens.int),
      create_log(ts, "assistant", response[p].content.str,
                 response[p].completion_tokens.int)>>

(***************************************************************************)
(* C1 (as claimed): the tokens of the log entries included in a            *)
(* transmitted request sum to at most MAX_TOKENS.                          *)
(***************************************************************************)
C1_WindowWithinBudget ==
    \A p \in Procs :
        requested[p] => BigLeq(SumTokens(Loaded(p), included[p]), Budget)

(***************************************************************************)
(* C2 (as claimed): an entry is included exactly when the tokens of the    *)
(* newer included entries plus its own do not exceed MAX_TOKENS; a skipped *)
(* entry adds nothing and does not stop the scan.                          *)
(***************************************************************************)
C2_GreedyInclusion ==
    \A p \in Procs :
        requested[p] =>
            \A i \in 1..Len(Loaded(p)) :
                i \in included[p] <=>
                    BigLeq(BigAdd(SumTokens(Loaded(p), {j \in included[p] : j > i}),
                                  Loaded(p)[i].tokens),
                           Budget)

Suffix(log, k) == (k + 1)..Len(log)

IsMaximalFittingSuffix(log, S) ==
    \E k \in 0..Len(log) :
        /\ S = Suffix(log, k)
        /\ BigLeq(SumTokens(log, S), Budget)
        /\ \A k2 \in 0..(k - 1) : ~BigLeq(SumTokens(log, Suffix(log, k2)), Budget)

(***************************************************************************)
(* C3 (as claimed): the included entries are the maximal suffix of the log *)
(* whose cumulative tokens do not exceed MAX_TOKENS.                       *)
(***************************************************************************)
\* Stated for the logs on which no i64 addition can overflow and the data
\* model's own invariant holds: every entry has 0 <= tokens <= MAX_TOKENS.
PlainLog(log) ==
    \A i \in 1..Len(log) :
        BigLeq(BigOf(0), log[i].tokens) /\ BigLeq(log[i].tokens, Budget)

C3_MaximalSuffix ==
    \A p \in Procs :
        requested[p] /\ PlainLog(Loaded(p)) =>
            IsMaximalFittingSuffix(Loaded(p), included[p])

(***************************************************************************)
(* C3 (amended): the included entries contain the longest suffix of the    *)
(* log every one of whose running totals, newest first, is an i64 of at    *)
(* most MAX_TOKENS; older entries beyond a skipped one may be included     *)
(* too.                                                                    *)
(***************************************************************************)
RunningTotalsFit(log, k) ==
    \A j \in Suffix(log, k) :
        LET t == SumTokens(log, j..Len(log))
        IN  BigLeq(I64Min, t) /\ BigLeq(t, Budget)

FittingRun(log) ==
    LET k == CHOOSE k \in 0..Len(log) :
                 /\ RunningTotalsFit(log, k)
                 /\ \A k2 \in 0..(k - 1) : ~RunningTotalsFit(log, k2)
    IN  Suffix(log, k)

C3_ContainsFittingRun ==
    \A p \in Procs :
        requested[p] => FittingRun(Loaded(p)) \subseteq included[p]

\* a request whose included entries are more than the fitting run, which
\* is not empty: an older entry was included beyond a skipped one
C3_Witness ==
    \E p \in Procs :
        /\ requested[p]
        /\ FittingRun(Loaded(p)) # {}
        /\ FittingRun(Loaded(p)) # included[p]
        /\ FittingRun(Loaded(p)) \subseteq included[p]

(***************************************************************************)
(* C4: the transmitted messages are the included entries as role/content   *)
(* pairs, oldest first, then the one message {user, prompt}; for an absent *)
(* or empty log they are that one message alone.                           *)
(***************************************************************************)
C4_OrderAndPrompt ==
    \A p \in Procs :
        requested[p] =>
            /\ messages[p] = MessagesAt(Loaded(p), included[p], 1)
                                 \o <<create_message("user", prompt[p])>>
            /\ chatlog_text[p] = EmptyText =>
                   messages[p] = <<create_message("user", prompt[p])>>

\* a request that carries three entries of a log of four besides the prompt
C4_Witness ==
    \E p \in Procs :
        /\ requested[p]
        /\ Len(messages[p]) = 4
        /\ Len(Loaded(p)) = 4

(***************************************************************************)
(* C5: when an invocation has succeeded and no later write has replaced    *)
(* its file, the persisted log is the log it loaded followed by a user     *)
(* entry (prompt, reported prompt_tokens) and an assistant entry (answer,  *)
(* reported completion_tokens); when no other invocation ran meanwhile,    *)
(* the loaded log is the log persisted when it started, so the earlier     *)
(* persisted log is a prefix of the later one.                             *)
(***************************************************************************)
IsPrefix(s, t) == Len(s) <= Len(t) /\ SubSeq(t, 1, Len(s)) = s

C5_AppendsTwoEntries ==
    \A p \in Procs :
        Succeeded(p) /\ lastWriter = p =>
            /\ fs.exists
            /\ \E ts \in 0..MaxRuns :
                   fs.text = to_string(Loaded(p) \o NewEntries(p, ts))
            /\ ~shared[p] =>
                   /\ Loaded(p) = Persisted(startFs[p])
                   /\ IsPrefix(Persisted(startFs[p]), Persisted(fs))
                   /\ Len(Persisted(fs)) = Len(Persisted(startFs[p])) + 2

\* a second successful invocation, alone, on a log that holds a first turn,
\* one entry of which the selection skipped
C5_Witness ==
    \E p \in Procs :
        /\ Succeeded(p)
        /\ lastWriter = p
        /\ ~shared[p]
        /\ Len(Persisted(startFs[p])) = 2
        /\ Len(Persisted(fs)) = 4
        /\ included[p] # 1..2

(***************************************************************************)
(* C6 (as claimed): on a response with an error object (carrying its       *)
(* message) the invocation prints the provider's message, appends nothing, *)
(* leaves the log file as it was before the invocation, and exits with     *)
(* code 0.                                                                 *)
(***************************************************************************)
GotProviderError(p) ==
    /\ Exited(p) /\ requested[p]
    /\ response[p].error = "object" /\ response[p].message.kind = "str"

TransportFailed(p) == Exited(p) /\ requested[p] /\ response[p] = NoResponse

C7_FailureWritesNothing ==
    \A p \in Procs :
        Exited(p) /\ requested[p] /\ LacksField(response[p]) =>
            /\ exit[p] = 101
            /\ stdout[p] = <<>>
            /\ chatlog[p] = Loaded(p)
            /\ "write" \notin fsLog[p]
            /\ ~shared[p] => fs.text = chatlog_text[p]

\* a transport failure and a response without usage.prompt_tokens
C7_Witness ==
    \E p, q \in Procs :
        /\ TransportFailed(p)
        /\ Exited(q) /\ requested[q] /\ response[q] # NoResponse
        /\ LacksField(response[q]) /\ response[q].prompt_tokens.kind = "null"

(***************************************************************************)
(* C8: a request is sent only with the API key found and a log loaded;     *)
(* without the key the process panics before any operation on the log      *)
(* directory or file and before any request; with a non-empty malformed    *)
(* log file it ends before any request.                                    *)
(***************************************************************************)
C8_RequestAfterKeyAndLog ==
    \A p \in Procs :
        /\ requested[p] =>
               /\ key[p]
               /\ "read" \in fsLog[p]
               /\ chatlog_text[p] = EmptyText \/ from_str(chatlog_text[p]).ok
        /\ pc[p] # "idle" /\ ~key[p] =>
               /\ Exited(p) /\ exit[p] = 101
               /\ fsLog[p] = {}
               /\ ~requested[p]
        /\ "read" \in fsLog[p] /\ chatlog_text[p] = Garbage =>
               /\ Exited(p) /\ exit[p] = 1
               /\ ~requested[p]

\* one invocation without the key, another that read a malformed log
C8_Witness ==
    \E p, q \in Procs :
        /\ pc[p] = "exited" /\ ~key[p]
        /\ "read" \in fsLog[q] /\ chatlog_text[q] = Garbage

(***************************************************************************)
(* C9: when two invocations have both succeeded after loading the same     *)
(* log (both loaded before either wrote), the file holds that log followed *)
(* by the two entries of the one that wrote last; the other's turn is not  *)
(* in it, though it printed its answer and exited with code 0.             *)
(***************************************************************************)
Raced(p, q) ==
    /\ p # q
    /\ Succeeded(p) /\ Succeeded(q)
    /\ chatlog_text[p] = chatlog_text[q]
    /\ lastWriter = q

C9_LastWriterWins ==
    \A p, q \in Procs :
        Raced(p, q) =>
            /\ fs.text = to_string(chatlog[q])
            /\ chatlog[q] = Loaded(p) \o SubSeq(chatlog[q], Len(chatlog[q]) - 1, Len(chatlog[q]))
            /\ Len(Persisted(fs)) = Len(Loaded(p)) + 2
            /\ exit[p] = 0
            /\ stdout[p] = <<AnswerLine(response[p].content.str)>>

\* the race, with the two turns differing in their reported tokens
C9_Witness ==
    \E p, q \in Procs :
        /\ Raced(p, q)
        /\ response[p].prompt_tokens # response[q].prompt_tokens

(***************************************************************************)
(* C10 (as claimed): every entry of the log, in memory and persisted, has  *)
(* tokens >= 0.                                                            *)
(***************************************************************************)
C10_TokensNonNegative ==
    /\ \A i \in 1..Len(Persisted(fs)) : BigLeq(BigOf(0), Persisted(fs)[i].tokens)
    /\ \A p \in Procs :
           \A i \in 1..Len(chatlog[p]) : BigLeq(BigOf(0), chatlog[p][i].tokens)

=============================================================================
